---------------------------- MODULE Spec2Model ----------------------------
(***************************************************************************)
(* Model of the financial document extractor: the Streamlit request        *)
(* handler (app.py main), the Landing AI client wrapper and box extractor  *)
(* (landingai_client.py) and the rasterizer / overlay renderer             *)
(* (processing.py).                                                        *)
(*                                                                         *)
(* Conventions                                                             *)
(*  - Python None is the record None; optional values carry a "kind".      *)
(*  - A normalized coordinate is an integer n standing for n/Denom, and a  *)
(*    pixel coordinate an integer standing for that many 1/Denom pixels,   *)
(*    so left * image_width is exact.                                      *)
(*  - A Python str that is built by concatenation (the page markdown) is   *)
(*    the sequence of its pieces; the separator "\n\n" is the piece SEP.   *)
(*  - An image object is an index into heap; its pixel data is its size    *)
(*    and the ordered list of draw primitives applied to it.               *)
(***************************************************************************)
EXTENDS Integers, Sequences, FiniteSets, TLC

\* ------------------------------------------------------------- bounds

\* Most chunks in one parse response.
MaxChunks == 2
\* Most pages in one uploaded PDF.
MaxPages == 2
\* Most rectangles handed to one direct draw_bounding_boxes call.
MaxBoxes == 2
\* Resolution of the model's fractions: a coordinate n stands for n/Denom.
Denom == 10

\* ------------------------------------------------------- value domains

None == [kind |-> "None"]

IsNone(v) == v.kind = "None"

\* Pixel sizes (width, height) of page images.
SizeA == [w |-> 1000, h |-> 2000]

SizeB == [w |-> 600, h |-> 300]

Sizes == {SizeA, SizeB}

\* Page i of a rasterized PDF (pages of one document may differ in size).
PageSize(i) == IF i % 2 = 1 THEN SizeA ELSE SizeB

\* Normalized boxes a chunk may carry, in units of 1/Denom: a region inside
\* the page, the whole page, a degenerate point and an inverted box (the
\* service's fields are read as they come).
NormBoxes ==
    { [kind |-> "box", left |-> 1, top |-> 2, right |-> 5, bottom |-> 6],
      [kind |-> "box", left |-> 0, top |-> 0, right |-> Denom, bottom |-> Denom],
      [kind |-> "box", left |-> 3, top |-> 3, right |-> 3, bottom |-> 3],
      [kind |-> "box", left |-> 5, top |-> 6, right |-> 1, bottom |-> 2] }

\* The boxes of the request flow's responses.
FlowBoxes ==
    { [kind |-> "box", left |-> 1, top |-> 2, right |-> 5, bottom |-> 6],
      [kind |-> "box", left |-> 5, top |-> 6, right |-> 1, bottom |-> 2] }

PageIndices == {0, 1}

\* grounding: absent, or a page with an optional box.
GroundingSet(boxes) ==
    {None} \cup
    [kind : {"grounding"}, page : PageIndices, box : {None} \cup boxes]

ChunkSet(types, texts, boxes) ==
    [type : types, markdown : texts, grounding : GroundingSet(boxes)]

RECURSIVE SeqsUpTo(_, _)
\* All sequences over S of length at most n.
SeqsUpTo(S, n) ==
    IF n = 0 THEN {<< >>}
    ELSE LET shorter == SeqsUpTo(S, n - 1)
         IN  shorter \cup { Append(s, x) : s \in {t \in shorter : Len(t) = n - 1}, x \in S }

\* Parse responses: an object with .chunks.
ResponseSet(chunks) ==
    { [kind |-> "response", chunks |-> cs] : cs \in SeqsUpTo(chunks, MaxChunks) }

\* Responses the SDK returns in the request flow.
FlowResponses == ResponseSet(ChunkSet({"text"}, {"a", "b"}, FlowBoxes))

\* Responses handed to the extractor directly.
ExtractResponses == ResponseSet(ChunkSet({"text", "table"}, {"a", "b"}, NormBoxes))


\* Uploaded files: a PDF of n pages, an image, or bytes neither decoder reads.
PdfUpload(n) ==
    [kind |-> "upload", type |-> "application/pdf", name |-> "doc.pdf",
     content |-> [kind |-> "pdf", npages |-> n]]

ImageUpload(s) ==
    [kind |-> "upload", type |-> "image/png", name |-> "scan.png",
     content |-> [kind |-> "image", size |-> s]]

GarbageUpload(t, n) ==
    [kind |-> "upload", type |-> t, name |-> n, content |-> [kind |-> "garbage"]]

Uploads ==
    { PdfUpload(n) : n \in 0..MaxPages } \cup { ImageUpload(s) : s \in Sizes }
    \cup { GarbageUpload("application/pdf", "doc.pdf"), GarbageUpload("image/png", "scan") }

\* Installed Pillow: "7" has no ImageDraw.textbbox, "9" has it, "10" has it
\* and rejects a rectangle whose second corner precedes its first.
Builds == {"7", "9", "10"}

Ok(v) == [kind |-> "ok", value |-> v]

Raise(type, msg) == [kind |-> "raise", exc |-> [type |-> type, msg |-> msg]]

\* str(exc) of an exception built from one message argument.
str_exc(exc) == exc.msg

\* ------------------------------------------------------- processing.py

Box(page_index, x1, y1, x2, y2, label, text) ==
    [page_index |-> page_index, x1 |-> x1, y1 |-> y1, x2 |-> x2, y2 |-> y2,
     label |-> label, text |-> text]

\* A fresh image object: its size and no drawing on it yet.
NewImage(size) == [size |-> size, ops |-> << >>]

\* Image.open(uploaded_file).convert("RGB"): the images appended to the heap
\* (the opened one and its converted copy), or the decoder's error.
load_image_from_upload(uploaded_file) ==
    IF uploaded_file.content.kind = "image"
    THEN Ok(<< NewImage(uploaded_file.content.size), NewImage(uploaded_file.content.size) >>)
    ELSE Raise("UnidentifiedImageError", "cannot identify image file")

\* pdf_to_image_first_page without the check of line 38.
pdf_to_image_unchecked(uploaded_file) ==
    IF uploaded_file.content.kind # "pdf"
    THEN Raise("FileDataError", "Failed to open stream")
    ELSE Ok([i \in 1..uploaded_file.content.npages |-> NewImage(PageSize(i))])

\* One image per page of the document, in page order; ValueError when the
\* document has no page. (Returns the list of all pages, not the first.)
pdf_to_image_first_page(uploaded_file) ==
    IF uploaded_file.content.kind # "pdf"
    THEN Raise("FileDataError", "Failed to open stream")
    ELSE LET images == [i \in 1..uploaded_file.content.npages |-> NewImage(PageSize(i))]
         IN  IF images = << >>
             THEN Raise("ValueError", "No pages found in PDF")
             ELSE Ok(images)

base_font_size == 20

padding == 10

outline_width == 2

\* The font draw_bounding_boxes ends up with: the bold TrueType font when
\* the file can be loaded, else Pillow's built-in default.
LoadFont(font_ok) ==
    IF font_ok THEN [name |-> "Arial Bold.ttf", size |-> base_font_size]
    ELSE [name |-> "default", size |-> 0]

\* draw.textbbox((0, 0), label_text, font): (left, top, right, bottom) in pixels.
textbbox(label_text, font) ==
    IF font.name = "default"
    THEN << 0, 0, 6 * Len(label_text), 11 >>
    ELSE << 0, 4, 12 * Len(label_text), 4 + (3 * font.size) \div 4 >>

\* font.getsize(label_text): (width, height) measured from the origin.
getsize(label_text, font) ==
    << textbbox(label_text, font)[3], textbbox(label_text, font)[4] >>

\* (text_w, text_h) as lines 75-80 compute them.
TextExtent(label_text, font, pillow) ==
    IF pillow # "7"
    THEN LET bbox == textbbox(label_text, font)
         IN  << bbox[3] - bbox[1], bbox[4] - bbox[2] >>
    ELSE getsize(label_text, font)

Max(a, b) == IF a >= b THEN a ELSE b

\* ImageDraw.rectangle raises ValueError on such coordinates in Pillow 10.
RectangleRaises(xy, pillow) ==
    pillow = "10" /\ (xy[3] < xy[1] \/ xy[4] < xy[2])

\* bg_coords without the max(0, ...) floor.
BgCoordsNoFloor(box, text_w, text_h) ==
    << box.x1,
       box.y1 - text_h * Denom - 2 * padding * Denom,
       box.x1 + text_w * Denom + 2 * padding * Denom,
       box.y1 >>

\* bg_coords of lines 83-88, in 1/Denom pixels.
BgCoords(box, text_w, text_h) ==
    << box.x1,
       Max(0, box.y1 - text_h * Denom - 2 * padding * Denom),
       box.x1 + text_w * Denom + 2 * padding * Denom,
       box.y1 >>

\* The loop body of lines 63-95 for one box: the draw primitives applied to
\* the annotated image, and whether one of them raised.
DrawBox(box, font, pillow) ==
    LET color == IF box.label = "text" THEN "red" ELSE "blue"
        xy == << box.x1, box.y1, box.x2, box.y2 >>
        outline == [op |-> "rectangle", xy |-> xy, outline |-> color,
                    fill |-> "", width |-> outline_width, text |-> ""]
        ext == TextExtent(box.label, font, pillow)
        bg == BgCoords(box, ext[1], ext[2])
        bgop == [op |-> "rectangle", xy |-> bg, outline |-> "",
                 fill |-> color, width |-> 1, text |-> ""]
        textop == [op |-> "text",
                   xy |-> << box.x1 + padding * Denom, bg[2] + padding * Denom >>,
                   outline |-> "", fill |-> "white", width |-> 0, text |-> box.label]
    IN  IF RectangleRaises(xy, pillow) THEN [ops |-> << >>, raised |-> TRUE]
        ELSE IF box.label = "" THEN [ops |-> << outline >>, raised |-> FALSE]
        ELSE IF RectangleRaises(bg, pillow) THEN [ops |-> << outline >>, raised |-> TRUE]
        ELSE [ops |-> << outline, bgop, textop >>, raised |-> FALSE]

RECURSIVE DrawAll(_, _, _)
\* The for loop of line 63: the primitives of every box in iteration order,
\* stopping at the first one that raises.
DrawAll(boxes, font, pillow) ==
    IF boxes = << >> THEN [ops |-> << >>, raised |-> FALSE]
    ELSE LET first == DrawBox(Head(boxes), font, pillow)
             rest == DrawAll(Tail(boxes), font, pillow)
         IN  IF first.raised THEN first
             ELSE [ops |-> first.ops \o rest.ops, raised |-> rest.raised]

\* Drawing on the image itself instead of on a copy.
CopyTargetInPlace(hp, image) == image

\* image.copy(): the heap index of the object the drawing goes to.
CopyTarget(hp, image) == Len(hp) + 1

\* draw_bounding_boxes(image, boxes) on heap hp: the heap afterwards and the
\* returned image object, or the propagated ValueError.
draw_bounding_boxes(hp, image, boxes, font_ok, pillow) ==
    LET annotated == CopyTarget(hp, image)
        copied == IF annotated > Len(hp) THEN Append(hp, hp[image]) ELSE hp
        drawn == DrawAll(boxes, LoadFont(font_ok), pillow)
        after == [copied EXCEPT ![annotated].ops = @ \o drawn.ops]
    IN  IF drawn.raised
        THEN [kind |-> "raise", heap |-> after,
              exc |-> [type |-> "ValueError", msg |-> "x1 must be greater than or equal to x0"]]
        ELSE [kind |-> "ok", heap |-> after, value |-> annotated]

\* --------------------------------------------------- landingai_client.py

\* Environment variables that may be set when the request runs (after
\* load_dotenv): the wrapper's, and the one the SDK itself falls back to.
EnvNames == {"LANDINGAI_API_KEY", "VISION_AGENT_API_KEY"}

getenv(env, name) == IF name \in env THEN [kind |-> "str", s |-> name] ELSE None

\* Python's `a or b` on an optional string: a unless it is empty or None.
OrElse(a, b) == IF IsNone(a) \/ (a.kind = "str" /\ a.s = "") THEN b ELSE a

\* LandingAIADE(apikey=...): the SDK takes the key it is given, else its own
\* environment variable, and refuses to construct a client without one.
LandingAIADE(apikey, env) ==
    LET key == IF IsNone(apikey) THEN getenv(env, "VISION_AGENT_API_KEY") ELSE apikey
    IN  IF IsNone(key)
        THEN Raise("LandingAiadeError", "The apikey client option must be set")
        ELSE Ok([kind |-> "sdk", apikey |-> key])

\* __init__ with os.getenv("LANDINGAI_API_KEY", ""): an empty string, not
\* None, reaches the SDK when nothing is configured.
LandingAIClientEmptyDefault(api_key, env) ==
    LET fallback == IF "LANDINGAI_API_KEY" \in env
                    THEN getenv(env, "LANDINGAI_API_KEY")
                    ELSE [kind |-> "str", s |-> ""]
        self_api_key == IF IsNone(api_key) \/ api_key.s = "" THEN fallback ELSE api_key
        sdk == LandingAIADE(self_api_key, env)
    IN  IF sdk.kind = "raise" THEN sdk
        ELSE Ok([kind |-> "client", api_key |-> self_api_key, _client |-> sdk.value])

\* LandingAIClient.__init__(api_key): the client object, or the SDK's error.
LandingAIClient(api_key, env) ==
    LET self_api_key == OrElse(api_key, getenv(env, "LANDINGAI_API_KEY"))
        sdk == LandingAIADE(self_api_key, env)
    IN  IF sdk.kind = "raise" THEN sdk
        ELSE Ok([kind |-> "client", api_key |-> self_api_key, _client |-> sdk.value])

\* Path(filename).suffix or ".bin"
TmpSuffix(filename) ==
    IF filename = "doc.pdf" THEN ".pdf"
    ELSE IF filename = "scan.png" THEN ".png"
    ELSE ".bin"

\* The except clause raising a fixed message instead of str(exc).
ParseOutcomeGeneric(sdk_outcome) ==
    IF sdk_outcome.kind = "ok" THEN sdk_outcome
    ELSE IF sdk_outcome.exc.type = "KeyboardInterrupt" THEN sdk_outcome
    ELSE Raise("Exception", "Document parsing failed")

\* What parse_document does with the outcome of self._client.parse (lines
\* 41-47), before the finally clause runs: the response to return, the
\* wrapped Exception, or the interrupt passing through.
ParseOutcome(sdk_outcome) ==
    IF sdk_outcome.kind = "ok" THEN sdk_outcome
    ELSE IF sdk_outcome.exc.type = "KeyboardInterrupt" THEN sdk_outcome
    ELSE Raise("Exception", str_exc(sdk_outcome.exc))

\* The temporary file after tmp_path.unlink(missing_ok=True) in the finally
\* clause: gone when unlink succeeds, still there when it fails.
AfterUnlink(tmp_file, unlink_outcome) ==
    IF unlink_outcome = "ok" THEN [tmp_file EXCEPT !.state = "deleted"] ELSE tmp_file

\* What leaves parse_document after the finally clause: an Exception from
\* unlink is swallowed, an interrupt during it replaces the pending result.
AfterFinally(pending_result, unlink_outcome) ==
    IF unlink_outcome = "interrupt" THEN Raise("KeyboardInterrupt", "")
    ELSE pending_result

\* int(v) of a page number the SDK delivers as an int.
int_(v) == v

\* str(getattr(chunk, "type", "chunk"))
ChunkLabel(chunk) == IF "type" \in DOMAIN chunk THEN chunk.type ELSE "chunk"

\* str(getattr(chunk, "markdown", "") or getattr(chunk, "text", ""))
ChunkText(chunk) ==
    IF "markdown" \in DOMAIN chunk /\ chunk.markdown # "" THEN chunk.markdown
    ELSE IF "text" \in DOMAIN chunk THEN chunk.text
    ELSE ""

\* box_obj of lines 85-88: grounding.box when there is a grounding.
BoxObj(chunk) ==
    LET grounding == IF "grounding" \in DOMAIN chunk THEN chunk.grounding ELSE None
    IN  IF IsNone(grounding) THEN None ELSE grounding.box

\* Lines 92-114: the Box of one grounded chunk, scaled by the image's size.
ChunkBox(chunk, size) ==
    LET box_obj == BoxObj(chunk)
        image_width == size.w
        image_height == size.h
    IN  Box(int_(chunk.grounding.page),
            box_obj.left * image_width,
            box_obj.top * image_height,
            box_obj.right * image_width,
            box_obj.bottom * image_height,
            ChunkLabel(chunk),
            ChunkText(chunk))

RECURSIVE ExtractLoopRev(_, _)
\* The loop inserting each Box at the front of the list instead of appending.
ExtractLoopRev(chunks, size) ==
    IF chunks = << >> THEN << >>
    ELSE IF IsNone(BoxObj(Head(chunks))) THEN ExtractLoopRev(Tail(chunks), size)
    ELSE ExtractLoopRev(Tail(chunks), size) \o << ChunkBox(Head(chunks), size) >>

RECURSIVE ExtractLoop(_, _)
\* The for loop of lines 77-114 over the chunks, in order.
ExtractLoop(chunks, size) ==
    IF chunks = << >> THEN << >>
    ELSE IF IsNone(BoxObj(Head(chunks))) THEN ExtractLoop(Tail(chunks), size)
    ELSE << ChunkBox(Head(chunks), size) >> \o ExtractLoop(Tail(chunks), size)

\* extract_bounding_boxes(parse_result, image), image given by its size.
extract_bounding_boxes(parse_result_, size) ==
    LET chunks == IF "chunks" \in DOMAIN parse_result_ THEN parse_result_.chunks ELSE << >>
    IN  ExtractLoop(chunks, size)

\* ---------------------------------------------------------------- app.py

VARIABLES
    pc,              \* where the run is: a step of main, or how it ended
    api_key,         \* st.text_input's value
    environ,         \* names of the environment variables that are set
    uploaded_file,   \* st.file_uploader's value, None when nothing is uploaded
    analyze_clicked, \* st.button's value
    font_ok,         \* whether "Arial Bold.ttf" can be loaded
    pillow,          \* the installed Pillow build
    heap,            \* the image objects
    images,          \* main's images: heap indices, one per page
    image,           \* main's reference image (heap index), 0 before it is set
    client,          \* the LandingAIClient, None before it is constructed
    tmp,             \* parse_document's temporary file
    pd_calls,        \* calls of parse_document in this request
    sdk_calls,       \* calls of the SDK's parse in this request
    sdk_result,      \* what the SDK's parse did, None before it is called
    pending,         \* parse_document's result while its finally clause runs
    parse_result,    \* main's parse_result, None before it is assigned
    boxes,           \* main's boxes, None before extraction
    pages,           \* main's page markdown aggregate, None before it is built
    page_index,      \* the render loop's position
    annotated,       \* the image draw_bounding_boxes returned last, 0 if none
    ui,              \* what the request has displayed, in order
    exc              \* the exception that ended the run, None if none

vars ==
    << pc, api_key, environ, uploaded_file, analyze_clicked, font_ok, pillow, heap,
       images, image, client, tmp, pd_calls, sdk_calls, sdk_result, pending,
       parse_result, boxes, pages, page_index, annotated, ui, exc >>

Str(s) == [kind |-> "str", s |-> s]

\* One displayed element: st.warning / info / error / caption / markdown show
\* text (a sequence of pieces), st.image shows an image object.
Msg(kind, text) == [kind |-> kind, text |-> text, image |-> 0]

ImageMsg(img) == [kind |-> "image", text |-> << >>, image |-> img]

SEP == "\n\n"

NoTmp == [state |-> "none", suffix |-> ""]

\* The temporary file is on disk from its creation until it is unlinked.
TmpExists == tmp.state \in {"open", "closed"}

\* Errors the extraction service call may end with, by message.
SdkErrors == {"401 Unauthorized", "Connection timed out"}

SdkOutcomes ==
    { Ok(r) : r \in FlowResponses } \cup { Raise("APIError", m) : m \in SdkErrors }
    \cup { Raise("KeyboardInterrupt", "") }

\* _preview_image(uploaded_file) on heap hp: the heap afterwards, the page
\* images (heap indices) and the caption shown, or the decoder's error.
_preview_image(hp, file) ==
    IF file.type = "application/pdf"
    THEN LET r == pdf_to_image_first_page(file)
         IN  IF r.kind = "raise" THEN r
             ELSE LET n == Len(r.value)
                  IN  [kind |-> "ok",
                       heap |-> hp \o r.value \o r.value,
                       images |-> [i \in 1..n |-> Len(hp) + n + i],
                       ui |-> << Msg("caption", << "Showing all pages of PDF (PoC)." >>) >>]
    ELSE LET r == load_image_from_upload(file)
         IN  IF r.kind = "raise" THEN r
             ELSE [kind |-> "ok",
                   heap |-> hp \o r.value,
                   images |-> << Len(hp) + Len(r.value) >>,
                   ui |-> << >>]

\* The last page's image taken as the reference.
ReferenceImageLast(imgs) == imgs[Len(imgs)]

\* The image main hands to extract_bounding_boxes (line 71): the first page.
ReferenceImage(imgs) == imgs[1]

RECURSIVE AggregateLoop(_, _)
\* Lines 107-112: the page markdown aggregate after the remaining chunks, or
\* the AttributeError of reading .page of a grounding that is None.
AggregateLoop(chunks, acc) ==
    IF chunks = << >> THEN Ok(acc)
    ELSE LET chunk == Head(chunks)
         IN  IF IsNone(chunk.grounding)
             THEN Raise("AttributeError", "'NoneType' object has no attribute 'page'")
             ELSE LET p == int_(chunk.grounding.page)
                      next == IF p \notin DOMAIN acc
                              THEN [q \in DOMAIN acc \cup {p} |->
                                       IF q = p THEN << chunk.markdown >> ELSE acc[q]]
                              ELSE [acc EXCEPT ![p] = @ \o << SEP, chunk.markdown >>]
                  IN  AggregateLoop(Tail(chunks), next)

EmptyDict == [q \in {} |-> << >>]

AggregatePages(parse_result_) == AggregateLoop(parse_result_.chunks, EmptyDict)

\* page_boxes of line 121.
PageBoxes(bxs, idx) == SelectSeq(bxs, LAMBDA box : box.page_index = idx)

\* State shared by every specification before anything has run.
Fresh ==
    /\ heap = << >> /\ images = << >> /\ image = 0
    /\ client = None /\ tmp = NoTmp /\ pd_calls = 0 /\ sdk_calls = 0
    /\ sdk_result = None /\ pending = None /\ parse_result = None
    /\ boxes = None /\ pages = None /\ page_index = 0 /\ annotated = 0
    /\ ui = << >> /\ exc = None

\* One run of the script: main is entered with the widgets' values.
Init ==
    /\ pc = "start"
    /\ api_key \in {Str(""), Str("user-key")}
    /\ environ \in SUBSET EnvNames
    /\ uploaded_file \in {None} \cup Uploads
    /\ analyze_clicked \in BOOLEAN
    /\ font_ok \in BOOLEAN
    /\ pillow \in Builds
    /\ Fresh

\* Lines 37-78: the page header, the upload check, the preview and the button.
MainPreview ==
    /\ pc = "start"
    /\ LET warned == IF api_key.s = ""
                     THEN << Msg("warning", << "No API key provided, using default key" >>) >>
                     ELSE << >>
       IN  IF IsNone(uploaded_file)
           THEN /\ ui' = warned \o << Msg("info", << "Upload a PNG, JPG, or PDF to get started." >>) >>
                /\ pc' = "done"
                /\ UNCHANGED << heap, images, image >>
           ELSE LET r == _preview_image(heap, uploaded_file)
                IN  IF r.kind = "raise"
                    THEN /\ ui' = warned \o
                                  << Msg("error", << "Could not render preview: ", str_exc(r.exc) >>) >>
                         /\ pc' = "done"
                         /\ UNCHANGED << heap, images, image >>
                    ELSE IF r.images = << >>
                    THEN /\ ui' = warned \o r.ui \o
                                  << Msg("error", << "Could not render preview: ",
                                                     "list index out of range" >>) >>
                         /\ pc' = "done"
                         /\ heap' = r.heap
                         /\ UNCHANGED << images, image >>
                    ELSE /\ heap' = r.heap
                         /\ images' = r.images
                         /\ image' = ReferenceImage(r.images)
                         /\ ui' = warned \o r.ui
                         /\ pc' = IF analyze_clicked THEN "client" ELSE "done"
    /\ UNCHANGED << api_key, environ, uploaded_file, analyze_clicked, font_ok, pillow,
                    client, tmp, pd_calls, sdk_calls, sdk_result, pending, parse_result,
                    boxes, pages, page_index, annotated, exc >>

\* Lines 80-91: the file is read again and the client is constructed.
MainClient ==
    /\ pc = "client"
    /\ LET r == LandingAIClient(IF api_key.s # "" THEN api_key ELSE None, environ)
       IN  IF r.kind = "raise"
           THEN /\ ui' = Append(ui, Msg("error", << str_exc(r.exc) >>))
                /\ pc' = "done"
                /\ UNCHANGED client
           ELSE /\ client' = r.value
                /\ pc' = "pd_create"
                /\ UNCHANGED ui
    /\ UNCHANGED << api_key, environ, uploaded_file, analyze_clicked, font_ok, pillow,
                    heap, images, image, tmp, pd_calls, sdk_calls, sdk_result, pending,
                    parse_result, boxes, pages, page_index, annotated, exc >>

\* How main goes on with what parse_document returned or raised (lines
\* 94-101): an Exception is shown and main returns, an interrupt is not
\* caught, a response is kept.
MainAfterParse(r) ==
    IF r.kind = "ok"
    THEN /\ parse_result' = r.value /\ pc' = "extract" /\ UNCHANGED << ui, exc >>
    ELSE IF r.exc.type = "KeyboardInterrupt"
    THEN /\ exc' = r.exc /\ pc' = "interrupted" /\ UNCHANGED << ui, parse_result >>
    ELSE /\ ui' = Append(ui, Msg("error", << str_exc(r.exc) >>))
         /\ pc' = "done"
         /\ UNCHANGED << parse_result, exc >>

\* parse_document, lines 36-37: the temporary file is created (delete=False).
PD_Create ==
    /\ pc = "pd_create"
    /\ pd_calls' = pd_calls + 1
    /\ \E outcome \in {"ok", "oserror"} :
          IF outcome = "ok"
          THEN /\ tmp' = [state |-> "open", suffix |-> TmpSuffix(uploaded_file.name)]
               /\ pc' = "pd_write"
               /\ UNCHANGED << ui, exc, parse_result >>
          ELSE /\ MainAfterParse(Raise("OSError", "No usable temporary directory found"))
               /\ UNCHANGED tmp
    /\ UNCHANGED << api_key, environ, uploaded_file, analyze_clicked, font_ok, pillow,
                    heap, images, image, client, sdk_calls, sdk_result, pending,
                    boxes, pages, page_index, annotated >>

\* parse_document, lines 37-39: the bytes are written inside the with block,
\* which closes the file, and keeps it, however the block is left.
PD_Write ==
    /\ pc = "pd_write"
    /\ tmp' = [tmp EXCEPT !.state = "closed"]
    /\ \E outcome \in {"ok", "oserror", "interrupt"} :
          IF outcome = "ok"
          THEN /\ pc' = "pd_parse" /\ UNCHANGED << ui, exc, parse_result >>
          ELSE IF outcome = "oserror"
          THEN MainAfterParse(Raise("OSError", "No space left on device"))
          ELSE MainAfterParse(Raise("KeyboardInterrupt", ""))
    /\ UNCHANGED << api_key, environ, uploaded_file, analyze_clicked, font_ok, pillow,
                    heap, images, image, client, pd_calls, sdk_calls, sdk_result, pending,
                    boxes, pages, page_index, annotated >>

\* parse_document, lines 41-47: the one call of the SDK's parse.
PD_Parse ==
    /\ pc = "pd_parse"
    /\ \E outcome \in SdkOutcomes :
          /\ sdk_result' = outcome
          /\ pending' = ParseOutcome(outcome)
    /\ sdk_calls' = sdk_calls + 1
    /\ pc' = "pd_finally"
    /\ UNCHANGED << api_key, environ, uploaded_file, analyze_clicked, font_ok, pillow,
                    heap, images, image, client, tmp, pd_calls, parse_result,
                    boxes, pages, page_index, annotated, ui, exc >>

\* parse_document, lines 48-55: the finally clause unlinks the file, then the
\* call returns or raises to main.
PD_Finally ==
    /\ pc = "pd_finally"
    /\ \E unlink_outcome \in {"ok", "fail", "interrupt"} :
          /\ tmp' = AfterUnlink(tmp, unlink_outcome)
          /\ MainAfterParse(AfterFinally(pending, unlink_outcome))
    /\ pending' = None
    /\ UNCHANGED << api_key, environ, uploaded_file, analyze_clicked, font_ok, pillow,
                    heap, images, image, client, pd_calls, sdk_calls, sdk_result,
                    boxes, pages, page_index, annotated >>

\* Lines 103-112: the rectangles are extracted against the reference image
\* and the page markdown aggregate is built.
MainExtract ==
    /\ pc = "extract"
    /\ boxes' = [kind |-> "list",
                 items |-> extract_bounding_boxes(parse_result, heap[image].size)]
    /\ LET r == AggregatePages(parse_result)
       IN  IF r.kind = "raise"
           THEN /\ exc' = r.exc /\ pc' = "crashed" /\ UNCHANGED pages
           ELSE /\ pages' = [kind |-> "dict", items |-> r.value]
                /\ pc' = "render"
                /\ UNCHANGED exc
    /\ UNCHANGED << api_key, environ, uploaded_file, analyze_clicked, font_ok, pillow,
                    heap, images, image, client, tmp, pd_calls, sdk_calls, sdk_result,
                    pending, parse_result, page_index, annotated, ui >>

\* Lines 116-138, one iteration: the page's annotated image (or a notice)
\* and its markdown (or a notice) are shown.
MainRender ==
    /\ pc = "render"
    /\ LET page_image == images[page_index + 1]
           page_boxes == PageBoxes(boxes.items, page_index)
           drawn == draw_bounding_boxes(heap, page_image, page_boxes, font_ok, pillow)
           left == IF page_boxes # << >>
                   THEN << ImageMsg(drawn.value) >>
                   ELSE << Msg("info", << "No bounding boxes found for this page." >>) >>
           right == IF page_index \in DOMAIN pages.items /\ pages.items[page_index] # << "" >>
                    THEN << Msg("markdown", pages.items[page_index]) >>
                    ELSE << Msg("info", << "No markdown found for this page." >>) >>
       IN  IF page_boxes # << >> /\ drawn.kind = "raise"
           THEN /\ heap' = drawn.heap
                /\ exc' = drawn.exc
                /\ pc' = "crashed"
                /\ UNCHANGED << annotated, ui, page_index >>
           ELSE /\ heap' = IF page_boxes # << >> THEN drawn.heap ELSE heap
                /\ annotated' = IF page_boxes # << >> THEN drawn.value ELSE annotated
                /\ ui' = ui \o left \o right
                /\ page_index' = page_index + 1
                /\ pc' = IF page_index + 1 = Len(images) THEN "done" ELSE "render"
                /\ UNCHANGED exc
    /\ UNCHANGED << api_key, environ, uploaded_file, analyze_clicked, font_ok, pillow,
                    images, image, client, tmp, pd_calls, sdk_calls, sdk_result,
                    pending, parse_result, boxes, pages >>

Next ==
    \/ MainPreview
    \/ MainClient
    \/ PD_Create
    \/ PD_Write
    \/ PD_Parse
    \/ PD_Finally
    \/ MainExtract
    \/ MainRender

Spec == Init /\ [][Next]_vars

\* ------------------------------------- the extractor, called on its own

\* A caller holds a parse response and a reference image of some size.
InitExtract ==
    /\ pc = "x_call"
    /\ parse_result \in ExtractResponses
    /\ heap \in { << NewImage(s) >> : s \in Sizes }
    /\ image = 1
    /\ images = << 1 >>
    /\ api_key = Str("") /\ environ = {} /\ uploaded_file = None
    /\ analyze_clicked = FALSE /\ font_ok = FALSE /\ pillow = "10"
    /\ client = None /\ tmp = NoTmp /\ pd_calls = 0 /\ sdk_calls = 0
    /\ sdk_result = None /\ pending = None
    /\ boxes = None /\ pages = None /\ page_index = 0 /\ annotated = 0
    /\ ui = << >> /\ exc = None

\* boxes = extract_bounding_boxes(parse_result, image)
CallExtract ==
    /\ pc = "x_call"
    /\ boxes' = [kind |-> "list",
                 items |-> extract_bounding_boxes(parse_result, heap[image].size)]
    /\ pc' = "x_done"
    /\ UNCHANGED << api_key, environ, uploaded_file, analyze_clicked, font_ok, pillow,
                    heap, images, image, client, tmp, pd_calls, sdk_calls, sdk_result,
                    pending, parse_result, pages, page_index, annotated, ui, exc >>

NextExtract == CallExtract

SpecExtract == InitExtract /\ [][NextExtract]_vars

\* -------------------------------------- the renderer, called on its own

\* Pixel rectangles (x1, y1, x2, y2) a caller may pass, in pixels: inside the
\* page, the whole first page, close under the top edge, inverted, and
\* starting above the image.
DrawRects ==
    { << 100, 400, 500, 1200 >>, << 0, 0, 1000, 2000 >>, << 100, 20, 500, 300 >>,
      << 500, 1200, 100, 400 >>, << 100, -50, 500, 300 >> }

DrawBoxSet ==
    { Box(0, r[1] * Denom, r[2] * Denom, r[3] * Denom, r[4] * Denom, l, "a") :
        r \in DrawRects, l \in {"", "text", "table"} }

\* Something drawn on an input image before the call.
PriorOp ==
    [op |-> "rectangle", xy |-> << 0, 0, Denom, Denom >>, outline |-> "blue",
     fill |-> "", width |-> outline_width, text |-> ""]

\* A caller holds an image, blank or already drawn on, and a rectangle list.
InitDraw ==
    /\ pc = "d_call"
    /\ heap \in { << [size |-> s, ops |-> o] >> : s \in Sizes, o \in {<< >>, << PriorOp >>} }
    /\ image = 1
    /\ images = << 1 >>
    /\ boxes \in { [kind |-> "list", items |-> b] : b \in SeqsUpTo(DrawBoxSet, MaxBoxes) }
    /\ font_ok \in BOOLEAN
    /\ pillow \in Builds
    /\ api_key = Str("") /\ environ = {} /\ uploaded_file = None
    /\ analyze_clicked = FALSE
    /\ client = None /\ tmp = NoTmp /\ pd_calls = 0 /\ sdk_calls = 0
    /\ sdk_result = None /\ pending = None /\ parse_result = None
    /\ pages = None /\ page_index = 0 /\ annotated = 0
    /\ ui = << >> /\ exc = None

\* annotated = draw_bounding_boxes(image, boxes)
CallDraw ==
    /\ pc = "d_call"
    /\ LET r == draw_bounding_boxes(heap, image, boxes.items, font_ok, pillow)
       IN  /\ heap' = r.heap
           /\ IF r.kind = "raise"
              THEN /\ exc' = r.exc /\ pc' = "d_raised" /\ UNCHANGED annotated
              ELSE /\ annotated' = r.value /\ pc' = "d_done" /\ UNCHANGED exc
    /\ UNCHANGED << api_key, environ, uploaded_file, analyze_clicked, font_ok, pillow,
                    images, image, client, tmp, pd_calls, sdk_calls, sdk_result,
                    pending, parse_result, boxes, pages, page_index, ui >>

NextDraw == CallDraw

SpecDraw == InitDraw /\ [][NextDraw]_vars

\* -------------------------------------------------------------- claims

\* parse_document was entered and has returned or raised.
ParseDocumentExited ==
    pd_calls > 0 /\ pc \notin {"pd_create", "pd_write", "pd_parse", "pd_finally"}

\* C1: on every exit path of parse_document (normal return, SDK failure,
\* interruption at any step after the temporary file was created, the write
\* included) the temporary file no longer exists once the call has exited.
C1_TmpFileGoneOnEveryExit ==
    (ParseDocumentExited /\ tmp.state # "none") => ~TmpExists

HasBox(chunk) == ~IsNone(chunk.grounding) /\ ~IsNone(chunk.grounding.box)

ErrorsShown == SelectSeq(ui, LAMBDA m : m.kind = "error")

\* The response has two chunks, one with a (well-formed) grounding box and
\* one without any grounding.
C2_Scenario ==
    /\ ~IsNone(parse_result)
    /\ Len(parse_result.chunks) = 2
    /\ \E i, j \in 1..2 :
          /\ i # j
          /\ HasBox(parse_result.chunks[i])
          /\ parse_result.chunks[i].grounding.box.left <= parse_result.chunks[i].grounding.box.right
          /\ parse_result.chunks[i].grounding.box.top <= parse_result.chunks[i].grounding.box.bottom
          /\ IsNone(parse_result.chunks[j].grounding)

\* C2: with one grounded and one text-only (no grounding) chunk on a page the
\* request completes without an error, the extractor returns exactly one
\* rectangle, and the page's markdown aggregate is both chunks' markdown in
\* chunk order joined by a blank line.
C2_TextOnlyChunkCompletes ==
    (C2_Scenario /\ pc \in {"render", "done", "crashed"}) =>
        /\ pc # "crashed"
        /\ Len(boxes.items) = 1
        /\ ~IsNone(pages)
        /\ LET p == boxes.items[1].page_index
           IN  /\ p \in DOMAIN pages.items
               /\ pages.items[p] = << parse_result.chunks[1].markdown, SEP,
                                      parse_result.chunks[2].markdown >>

GroundedChunks(resp) == SelectSeq(resp.chunks, HasBox)

C4_OneRectanglePerGroundedChunk ==
    pc = "x_done" =>
        LET g == GroundedChunks(parse_result)
        IN  /\ Len(boxes.items) = Len(g)
            /\ \A k \in 1..Len(g) :
                  /\ boxes.items[k].text = g[k].markdown
                  /\ boxes.items[k].label = g[k].type
                  /\ boxes.items[k].page_index = g[k].grounding.page
                  /\ boxes.items[k].x1 = g[k].grounding.box.left * heap[image].size.w
                  /\ boxes.items[k].y2 = g[k].grounding.box.bottom * heap[image].size.h

\* A text-only chunk followed by a grounded one: one rectangle, the second's.
C4_Witness ==
    /\ pc = "x_done"
    /\ Len(parse_result.chunks) = 2
    /\ ~HasBox(parse_result.chunks[1])
    /\ HasBox(parse_result.chunks[2])
    /\ Len(boxes.items) = 1
    /\ boxes.items[1].text = parse_result.chunks[2].markdown

\* The extraction service call of this request failed.
SdkFailed ==
    /\ ~IsNone(sdk_result)
    /\ sdk_result.kind = "raise"
    /\ sdk_result.exc.type # "KeyboardInterrupt"

\* C5: when the extraction service call fails, the failure is raised to main
\* as one Exception carrying the failure's message, the SDK's parse is called
\* once only, and main shows that error and returns without extracting
\* rectangles, building the markdown aggregate or rendering a page.
C5_ServiceFailureSurfacedOnce ==
    SdkFailed =>
        /\ sdk_calls = 1
        /\ pc \in {"pd_finally", "done", "interrupted"}
        /\ pc = "pd_finally" => pending = Raise("Exception", sdk_result.exc.msg)
        /\ pc = "done" => ErrorsShown = << Msg("error", << sdk_result.exc.msg >>) >>
        /\ IsNone(parse_result) /\ IsNone(boxes) /\ IsNone(pages)
        /\ annotated = 0
        /\ \A i \in 1..Len(ui) : ui[i].kind \notin {"image", "markdown"}

C5_Witness == SdkFailed /\ pc = "done" /\ Len(ErrorsShown) = 1

ZeroPagePdf ==
    /\ ~IsNone(uploaded_file)
    /\ uploaded_file.content.kind = "pdf"
    /\ uploaded_file.content.npages = 0

\* C7: a PDF with zero pages makes the rasterizer fail with the "no pages"
\* error; main shows it as a preview failure and ends the request before
\* extraction: no client, no parse_document call, no rectangles, no markdown.
C7_ZeroPagesAbortsBeforeExtraction ==
    (ZeroPagePdf /\ pc # "start") =>
        /\ pc = "done"
        /\ ErrorsShown =
              << Msg("error", << "Could not render preview: ", "No pages found in PDF" >>) >>
        /\ images = << >>
        /\ IsNone(client) /\ pd_calls = 0 /\ sdk_calls = 0
        /\ IsNone(boxes) /\ IsNone(pages)

C7_Witness == ZeroPagePdf /\ pc = "done" /\ analyze_clicked /\ Len(ErrorsShown) = 1

\* C8: draw_bounding_boxes never changes its input: across the call the input
\* image's pixel data stays what it was, and the image it returns is another
\* object than the input.
C8_DrawIsNonDestructive ==
    [][pc = "d_call" =>
          /\ heap'[image] = heap[image]
          /\ pc' = "d_done" => (annotated' # image /\ annotated' \in DOMAIN heap')]_vars

\* A call that drew something on the returned image.
C8_Witness ==
    /\ pc = "d_done"
    /\ boxes.items # << >>
    /\ annotated # image
    /\ heap[annotated].ops # heap[image].ops

\* C9: every rectangle the extractor emits for boxes with fields in [0,1]
\* has x1 <= x2 and y1 <= y2.
C9_RectanglesOrdered ==
    pc = "x_done" =>
        \A k \in 1..Len(boxes.items) :
            boxes.items[k].x1 <= boxes.items[k].x2 /\ boxes.items[k].y1 <= boxes.items[k].y2

RECURSIVE OpsBefore(_, _)
\* Draw primitives issued for the boxes before the k-th.
OpsBefore(bxs, k) ==
    IF k = 1 THEN 0
    ELSE OpsBefore(bxs, k - 1) + (IF bxs[k - 1].label = "" THEN 1 ELSE 3)

\* The label of the k-th rectangle as the returned image shows it: the filled
\* background starts at x1, ends at y1, is text_w + 20 wide and never starts
\* above 0, and the text is at the 10 px inset. always_full asks the
\* background to be text_h + 20 high in every case; otherwise it is that high
\* when y1 allows it and starts at 0 when not.
LabelDrawn(k, always_full) ==
    LET b == boxes.items[k]
        at == Len(heap[image].ops) + OpsBefore(boxes.items, k)
        bgop == heap[annotated].ops[at + 2]
        textop == heap[annotated].ops[at + 3]
        ext == TextExtent(b.label, LoadFont(font_ok), pillow)
        full == (ext[2] + 20) * Denom
    IN  /\ bgop.op = "rectangle" /\ bgop.fill # ""
        /\ bgop.xy[1] = b.x1
        /\ bgop.xy[4] = b.y1
        /\ bgop.xy[3] - bgop.xy[1] = (ext[1] + 20) * Denom
        /\ bgop.xy[2] >= 0
        /\ IF always_full \/ b.y1 >= full
           THEN bgop.xy[4] - bgop.xy[2] = full
           ELSE bgop.xy[2] = 0
        /\ textop.op = "text" /\ textop.text = b.label /\ textop.fill = "white"
        /\ textop.xy = << b.x1 + 10 * Denom, bgop.xy[2] + 10 * Denom >>

\* C10 as stated: every labelled rectangle's background sits on the box's top
\* edge from x1, is text_w + 20 wide and text_h + 20 high, never starts above
\* 0, and holds the label text at the 10 px inset.
C10_LabelBackgroundAlwaysFullSize ==
    pc = "d_done" =>
        \A k \in 1..Len(boxes.items) :
            boxes.items[k].label # "" => LabelDrawn(k, TRUE)

\* C10, amended: as above, but the background is text_h + 20 high only when
\* y1 >= text_h + 20; nearer the top its top is floored at 0 and it is as
\* high as the room that is left.
C10_LabelBackgroundFlooredAtTop ==
    pc = "d_done" =>
        \A k \in 1..Len(boxes.items) :
            boxes.items[k].label # "" => LabelDrawn(k, FALSE)

\* A labelled rectangle 20 px under the top edge was drawn after another one.
C10_Witness ==
    /\ pc = "d_done"
    /\ Len(boxes.items) = 2
    /\ boxes.items[1].label # ""
    /\ boxes.items[2].label # ""
    /\ boxes.items[2].y1 = 20 * Denom
    /\ heap[annotated].ops[Len(heap[image].ops) + 5].xy[2] = 0

=============================================================================
